---- MODULE Spec2Model ----
(***************************************************************************)
(* A model of crt.py, the crt.sh subdomain finder: the certificate fetcher *)
(* with its retry policy (fetch_from_crtsh), the subdomain extractor, the  *)
(* single-domain scan (scan_domain), the batch scan over a proxy pool      *)
(* (batch_scan_with_proxies), the proxy health check (test_proxies) and    *)
(* the dispatch in main.                                                   *)
(*                                                                         *)
(* Python strings are sequences of one-character strings, so that split,   *)
(* strip, lower, the substring test and the ordering of sorted() are       *)
(* computed as Python computes them. None is the value None below.         *)
(***************************************************************************)
EXTENDS Integers, Sequences, FiniteSets, TLC

(***************************************************************************)
(* Strings                                                                 *)
(***************************************************************************)

\* Python's None, for the optional string and list arguments.
None == <<"None">>

\* bool(x) of an optional string or list: None and the empty value are falsy.
Truthy(x) == x # None /\ x # <<>>

\* The code points of the characters the model's inputs are written with.
Ord(c) ==
    CASE c = "\n" -> 10  [] c = " " -> 32  [] c = "*" -> 42  [] c = "," -> 44
      [] c = "-" -> 45   [] c = "." -> 46  [] c = "/" -> 47  [] c = "1" -> 49
      [] c = "2" -> 50   [] c = "3" -> 51  [] c = ":" -> 58
      [] c = "A" -> 65   [] c = "B" -> 66  [] c = "E" -> 69  [] c = "I" -> 73
      [] c = "O" -> 79
      [] c = "P" -> 80   [] c = "W" -> 87  [] c = "X" -> 88
      [] c = "a" -> 97   [] c = "b" -> 98  [] c = "c" -> 99  [] c = "e" -> 101
      [] c = "h" -> 104  [] c = "i" -> 105 [] c = "k" -> 107 [] c = "l" -> 108
      [] c = "m" -> 109  [] c = "o" -> 111 [] c = "p" -> 112
      [] c = "q" -> 113  [] c = "s" -> 115 [] c = "t" -> 116 [] c = "w" -> 119
      [] c = "x" -> 120  [] c = "z" -> 122

\* str.lower() on one character.
LowerChar(c) ==
    CASE c = "A" -> "a" [] c = "B" -> "b" [] c = "E" -> "e" [] c = "I" -> "i"
      [] c = "O" -> "o"
      [] c = "P" -> "p" [] c = "W" -> "w" [] c = "X" -> "x" [] OTHER -> c

\* str.lower()
Lower(s) == [k \in 1..Len(s) |-> LowerChar(s[k])]

\* The characters str.strip() removes.
IsSpace(c) == c \in {" ", "\n"}

\* str.strip()
Strip(s) ==
    LET keep == {k \in 1..Len(s) : ~IsSpace(s[k])}
    IN  IF keep = {} THEN <<>>
        ELSE LET lo == CHOOSE k \in keep : \A m \in keep : k <= m
                 hi == CHOOSE k \in keep : \A m \in keep : m <= k
             IN  SubSeq(s, lo, hi)

\* s.startswith(p)
StartsWith(s, p) == Len(p) <= Len(s) /\ SubSeq(s, 1, Len(p)) = p

\* p in s, the substring test.
Contains(s, p) ==
    \E k \in 0..(Len(s) - Len(p)) : SubSeq(s, k + 1, k + Len(p)) = p

\* s.split(c) for a one-character separator: never an empty list.
RECURSIVE Split(_, _)
Split(s, c) ==
    LET hits == {k \in 1..Len(s) : s[k] = c}
    IN  IF hits = {} THEN <<s>>
        ELSE LET k == CHOOSE h \in hits : \A m \in hits : h <= m
             IN  <<SubSeq(s, 1, k - 1)>> \o Split(SubSeq(s, k + 1, Len(s)), c)

\* s < t for Python strings: lexicographic by code point.
RECURSIVE StrLess(_, _)
StrLess(s, t) ==
    IF t = <<>> THEN FALSE
    ELSE IF s = <<>> THEN TRUE
    ELSE IF Ord(s[1]) # Ord(t[1]) THEN Ord(s[1]) < Ord(t[1])
    ELSE StrLess(Tail(s), Tail(t))

\* sorted(S) of a set (or a duplicate-free list) of strings.
RECURSIVE Sorted(_)
Sorted(S) ==
    IF S = {} THEN <<>>
    ELSE LET m == CHOOSE x \in S : \A y \in S \ {x} : StrLess(x, y)
         IN  <<m>> \o Sorted(S \ {m})

\* The elements of a list.
Range(q) == {q[k] : k \in 1..Len(q)}

\* sorted(q) of a list of strings: equal elements are all kept.
RECURSIVE InsertSorted(_, _)
InsertSorted(x, q) ==
    IF q = <<>> THEN <<x>>
    ELSE IF StrLess(q[1], x) THEN <<q[1]>> \o InsertSorted(x, Tail(q))
    ELSE <<x>> \o q

RECURSIVE SortedList(_)
SortedList(q) ==
    IF q = <<>> THEN <<>> ELSE InsertSorted(q[1], SortedList(Tail(q)))

\* A string of n copies of the character c.
Rep(c, n) == [k \in 1..n |-> c]

\* "sep".join(parts)
RECURSIVE Join(_, _)
Join(parts, sep) ==
    IF parts = <<>> THEN <<>>
    ELSE IF Len(parts) = 1 THEN parts[1]
    ELSE parts[1] \o sep \o Join(Tail(parts), sep)

(***************************************************************************)
(* Pure functions of crt.py                                                *)
(***************************************************************************)

\* The longest label is_valid_domain accepts.
MaxLabelLen == 63

\* is_valid_domain without the check of the labels.
is_valid_domain_unchecked_labels(domain) ==
    IF ~Truthy(domain) THEN FALSE ELSE Len(Split(domain, ".")) >= 2

\* is_valid_domain that rejects a label of MaxLabelLen characters already.
is_valid_domain_short_labels(domain) ==
    IF ~Truthy(domain) THEN FALSE
    ELSE LET parts == Split(domain, ".")
         IN  IF Len(parts) < 2 THEN FALSE
             ELSE \A k \in 1..Len(parts) :
                      ~(parts[k] = <<>> \/ Len(parts[k]) >= MaxLabelLen)

is_valid_domain(domain) ==
    IF ~Truthy(domain) THEN FALSE
    ELSE LET parts == Split(domain, ".")
         IN  IF Len(parts) < 2 THEN FALSE
             ELSE \A k \in 1..Len(parts) :
                      ~(parts[k] = <<>> \/ Len(parts[k]) > MaxLabelLen)

\* The schemes parse_proxy_list recognises.
Schemes ==
    << <<"h","t","t","p",":","/","/">>,
       <<"h","t","t","p","s",":","/","/">>,
       <<"s","o","c","k","s","5",":","/","/">> >>

HasScheme(proxy) == \E k \in 1..Len(Schemes) : StartsWith(proxy, Schemes[k])

\* The list without its empty (falsy) entries, order kept.
RECURSIVE DropEmpty(_)
DropEmpty(q) ==
    IF q = <<>> THEN <<>>
    ELSE IF q[1] = <<>> THEN DropEmpty(Tail(q))
    ELSE <<q[1]>> \o DropEmpty(Tail(q))

parse_proxy_list(proxy_string) ==
    IF ~Truthy(proxy_string) THEN <<>>
    ELSE LET parts   == Split(proxy_string, ",")
             proxies == DropEmpty([k \in 1..Len(parts) |-> Strip(parts[k])])
         IN  [k \in 1..Len(proxies) |->
                 IF ~HasScheme(proxies[k]) THEN Schemes[1] \o proxies[k]
                 ELSE proxies[k]]

\* load_proxies_from_file on the file the name stands for: its lines as
\* readlines() yields them, or a file that cannot be opened or read (the
\* result is then []).
load_proxies_from_file(file) ==
    IF ~file.readable THEN <<>>
    ELSE DropEmpty([k \in 1..Len(file.lines) |-> Strip(file.lines[k])])

\* A certificate record is a dict; the model keeps its name_value, which is a
\* string, or Missing when the key is absent (get() then yields ''), or
\* BadValue when it is not a string (split then raises).
Missing == <<"Missing">>
BadValue == <<"BadValue">>

\* The names of one record when a leading "*." is left in place.
NamesOfKeepWildcard(cert, domain) ==
    LET raw   == IF cert.name_value = Missing THEN <<>> ELSE cert.name_value
        names == Split(raw, "\n")
        clean == [k \in 1..Len(names) |-> Lower(Strip(names[k]))]
    IN  {clean[k] : k \in {j \in 1..Len(names) :
                              clean[j] # <<>> /\ Contains(clean[j], Lower(domain))}}

\* The names one record contributes: lines 201-209.
NamesOf(cert, domain) ==
    LET raw   == IF cert.name_value = Missing THEN <<>> ELSE cert.name_value
        names == Split(raw, "\n")
        clean == [k \in 1..Len(names) |-> Lower(Strip(names[k]))]
        kept  == {k \in 1..Len(names) :
                     clean[k] # <<>> /\ Contains(clean[k], Lower(domain))}
    IN  {IF StartsWith(clean[k], <<"*", ".">>)
         THEN SubSeq(clean[k], 3, Len(clean[k]))
         ELSE clean[k] : k \in kept}

\* The loop of extract_subdomains from record k on: an exception raised by a
\* record leaves the loop (the try encloses the loop), what was accumulated
\* is returned.
RECURSIVE ExtractFrom(_, _, _, _)
ExtractFrom(data, domain, k, acc) ==
    IF k > Len(data) THEN acc
    ELSE IF data[k].name_value = BadValue THEN acc
    ELSE ExtractFrom(data, domain, k + 1, acc \cup NamesOf(data[k], domain))

extract_subdomains(data, domain) == ExtractFrom(data, domain, 1, {})

filter_subdomains(subdomains, keyword) ==
    IF ~Truthy(keyword) THEN subdomains
    ELSE {sub \in subdomains : Contains(sub, Lower(keyword))}

(***************************************************************************)
(* The certificate fetcher: fetch_from_crtsh                               *)
(***************************************************************************)

\* The sleeps of the retry policy, in seconds.
TimeoutBackoff == 5
ConnectionBackoff == 5
RateLimitWait == 10
JsonBackoff == 2
ErrorBackoff == 3

\* The status raise_for_status() reports as rate limiting.
TooManyRequests == 429

\* The base classes of the exceptions a request attempt can raise, as the
\* requests library and the json module declare them. ProxyError derives from
\* ConnectionError.
Bases(cls) ==
    CASE cls = "ProxyError"      -> {"ConnectionError"}
      [] cls = "ConnectionError" -> {"Exception"}
      [] cls = "Timeout"         -> {"Exception"}
      [] cls = "HTTPError"       -> {"Exception"}
      [] cls = "JSONDecodeError" -> {"Exception"}
      [] cls = "TypeError"       -> {"Exception"}
      [] OTHER                   -> {}

\* isinstance(exc, cls) for an exception of class exc.
RECURSIVE IsInstance(_, _)
IsInstance(exc, cls) ==
    exc = cls \/ \E b \in Bases(exc) : IsInstance(b, cls)

\* The except clauses of the try statement, in the order they are written.
HandlersNoCatchAll ==
    <<"Timeout", "ConnectionError", "ProxyError", "HTTPError", "JSONDecodeError">>

Handlers ==
    <<"Timeout", "ConnectionError", "ProxyError", "HTTPError",
      "JSONDecodeError", "Exception">>

\* The except clause that handles an exception: the first that matches, or
\* "" when none does (the exception then leaves the function).
HandlerFor(exc) ==
    LET hits == {k \in 1..Len(Handlers) : IsInstance(exc, Handlers[k])}
    IN  IF hits = {} THEN ""
        ELSE Handlers[CHOOSE k \in hits : \A m \in hits : k <= m]

\* "if attempt < retries: sleep, continue; else: return []"
RetryOrGiveUpEager(k, retries, delay) ==
    IF k <= retries
    THEN [next |-> "continue", sleep |-> delay, value |-> <<>>]
    ELSE [next |-> "return", sleep |-> 0, value |-> <<>>]

\* The policy that takes the delay of the class before giving up as well.
RetryOrGiveUpAfterDelay(k, retries, delay) ==
    IF k < retries
    THEN [next |-> "continue", sleep |-> delay, value |-> <<>>]
    ELSE [next |-> "return", sleep |-> delay, value |-> <<>>]

\* "if attempt < retries: sleep(delay), continue" and the return [] reached
\* otherwise: lines 146-152, 193.
RetryOrGiveUp(k, retries, delay) ==
    IF k < retries
    THEN [next |-> "continue", sleep |-> delay, value |-> <<>>]
    ELSE [next |-> "return", sleep |-> 0, value |-> <<>>]

\* The HTTPError clause: 429 waits and continues, whatever the attempt;
\* any other status returns [].
OnHTTPErrorNoWait(status) ==
    [next |-> "return", sleep |-> 0, value |-> <<>>]

OnHTTPErrorRetryAll(status) ==
    [next |-> "continue", sleep |-> RateLimitWait, value |-> <<>>]

OnHTTPError(status) ==
    IF status = TooManyRequests
    THEN [next |-> "continue", sleep |-> RateLimitWait, value |-> <<>>]
    ELSE [next |-> "return", sleep |-> 0, value |-> <<>>]

\* One iteration of the retry loop, for attempt k and the response resp of
\* requests.get: what the iteration does next ("continue", "return",
\* "raise"), how long it sleeps first, and the value it returns.
Handle(resp, k, retries, proxy, test_proxy) ==
    IF resp.exc = "none"
    THEN [next |-> "return", sleep |-> 0,
          value |-> IF test_proxy /\ Truthy(proxy) THEN <<>> ELSE resp.body]
    ELSE LET h == HandlerFor(resp.exc)
         IN  CASE h = "Timeout"         -> RetryOrGiveUp(k, retries, TimeoutBackoff)
               [] h = "ConnectionError" -> RetryOrGiveUp(k, retries, ConnectionBackoff)
               [] h = "ProxyError"      -> [next |-> "return", sleep |-> 0, value |-> <<>>]
               [] h = "HTTPError"       -> OnHTTPError(resp.status)
               [] h = "JSONDecodeError" -> RetryOrGiveUp(k, retries, JsonBackoff)
               [] h = "Exception"       -> RetryOrGiveUp(k, retries, ErrorBackoff)
               [] OTHER                 -> [next |-> "raise", sleep |-> 0, value |-> <<>>]

\* The last attempt number of "for attempt in range(1, retries + 1)".
LastAttemptOneMore(retries) == retries + 1

LastAttempt(retries) == retries

(***************************************************************************)
(* Inputs                                                                  *)
(***************************************************************************)

\* Bounds of the model.
MaxRetries == 3
MaxBatch == 3
MaxPool == 3
MaxLimit == 3

\* Domains: two well-formed ones, and three is_valid_domain rejects (no dot,
\* an empty label, a label of 64 characters).
DomA == <<"a", ".", "i", "o">>
DomB == <<"b", ".", "i", "o">>
DomNoDot == <<"a", "b">>
DomEmptyLabel == <<"a", ".", ".", "i", "o">>
DomLongLabel == Rep("a", MaxLabelLen + 1) \o <<".", "i", "o">>

\* Proxy endpoints as the user writes them, and in normal form.
ProxySpecs ==
    << <<"p", "1">>,
       <<"h", "t", "t", "p", "s", ":", "/", "/", "p", "2">>,
       <<" ", "p", "3">>,
       <<"s", "o", "c", "k", "s", "5", ":", "/", "/", "p", "1">>,
       <<"p", "2">> >>

\* The bodies crt.sh answers with: lists of certificate records.
Cert(name_value) == [name_value |-> name_value]

Payloads ==
    { <<>>,
      << Cert(<<"*", ".", "B", ".", "a", ".", "i", "o", "\n",
                "w", ".", "a", ".", "i", "o">>) >>,
      << Cert(<<"x", ".", "b", ".", "i", "o", "\n", " ", "W", "W", ".", "a", ".", "i", "o", " ">>),
         Cert(<<"*", ".", "a", ".", "i", "o", "\n", "w", ".", "a", ".", "i", "o", "\n",
                "b", ".", "i", "o", ".", "z">>),
         Cert(Missing),
         Cert(<<"k", ".", "a", ".", "i", "o", "\n", "k", ".", "o", "k">>) >>,
      << Cert(<<"w", ".", "b", ".", "i", "o">>),
         Cert(BadValue),
         Cert(<<"z", ".", "a", ".", "i", "o">>) >> }

\* What one call of requests.get (with raise_for_status and json) can do:
\* answer with a body, or raise an exception of one of these classes.
Failures ==
    {[exc |-> e, status |-> 0, body |-> <<>>] :
        e \in {"Timeout", "ConnectionError", "ProxyError", "JSONDecodeError", "TypeError"}}
    \cup {[exc |-> "HTTPError", status |-> st, body |-> <<>>] : st \in {TooManyRequests, 500}}

Responses ==
    {[exc |-> "none", status |-> 200, body |-> b] : b \in Payloads} \cup Failures

(***************************************************************************)
(* State                                                                   *)
(***************************************************************************)

VARIABLES
    args,        \* the parsed command line
    pc,          \* where the program is
    proxies,     \* main: the proxy pool
    domains,     \* main: the batch list
    idx,         \* the loop counter i of the batch scan and of the proxy test
    proxy,       \* the proxy the current scan uses, or None
    success,     \* what the scan_domain calls returned, in order
    shown,       \* the display_results calls
    files,       \* the files save_results wrote
    results,     \* batch_scan_with_proxies: the results dict
    summary,     \* batch_scan_with_proxies: the printed summary, once printed
    working,     \* test_proxies: the working list
    failed,      \* test_proxies: the failed list
    exit_code,   \* the process exit code, once pc = "exit"
    interrupted, \* a KeyboardInterrupt ended the run
    paced,       \* the pacing sleeps of the batch scan and of the proxy test
    calls,       \* number of fetch_from_crtsh calls made
    ret,         \* the caller fetch_from_crtsh returns to
    f_domain,    \* fetch_from_crtsh: domain
    f_retries,   \* fetch_from_crtsh: retries
    f_proxy,     \* fetch_from_crtsh: proxy
    f_test,      \* fetch_from_crtsh: test_proxy
    attempt,     \* fetch_from_crtsh: the loop variable
    log,         \* the requests issued by this call, with what each came to
    slept,       \* seconds slept inside this call
    data,        \* the value the last call returned
    call,        \* a function called on its own: its name and arguments
    result       \* what that call returned, once it has

fetchVars == <<f_domain, f_retries, f_proxy, f_test, attempt, log, slept, data>>
progVars == <<args, proxies, domains, idx, proxy, success, shown, files, results,
              summary, working, failed, exit_code, interrupted, paced, calls>>
libVars == <<call, result>>
vars == <<pc, ret, progVars, fetchVars, libVars>>

\* --proxy-file: whether it was given, and the file behind the name.
NoFile == [given |-> FALSE, readable |-> FALSE, lines |-> <<>>]

\* The command line of a run that does nothing: argparse's defaults.
DefaultArgs ==
    [domain |-> None, batch |-> None, proxy |-> None, proxy_file |-> NoFile,
     keyword |-> None, output |-> None, limit |-> <<>>, retries |-> 3,
     rotate |-> FALSE, test_proxies |-> FALSE]

\* No function is called on its own: the program runs from main, or
\* fetch_from_crtsh from its entry.
NoCall == [fn |-> "none"]
NoLibCall == call = NoCall /\ result = <<>>

\* The program state before main runs.
ProgInit ==
    /\ proxies = <<>>
    /\ domains = <<>>
    /\ idx = 0
    /\ proxy = None
    /\ success = <<>>
    /\ shown = <<>>
    /\ files = <<>>
    /\ results = <<>>
    /\ summary = <<>>
    /\ working = <<>>
    /\ failed = <<>>
    /\ exit_code = -1
    /\ interrupted = FALSE
    /\ paced = <<>>
    /\ calls = 0

\* The entry of fetch_from_crtsh: lines 100-118.
CallFetch(domain, retries, prx, test_proxy, caller) ==
    /\ f_domain' = domain
    /\ f_retries' = retries
    /\ f_proxy' = prx
    /\ f_test' = test_proxy
    /\ attempt' = 1
    /\ log' = <<>>
    /\ slept' = 0
    /\ data' = <<>>
    /\ calls' = calls + 1
    /\ ret' = caller
    /\ pc' = "fetch"

\* The caller goes on with the returned value: the frame of the call, with
\* its arguments and locals, is gone.
FrameGone ==
    /\ f_domain' = None
    /\ f_retries' = 0
    /\ f_proxy' = None
    /\ f_test' = FALSE
    /\ attempt' = 0
    /\ log' = <<>>
    /\ slept' = 0

\* One iteration of the retry loop: lines 119-191.
FetchAttempt ==
    /\ pc = "fetch"
    /\ attempt <= LastAttempt(f_retries)
    /\ \E resp \in Responses :
         LET h == Handle(resp, attempt, f_retries, f_proxy, f_test)
         IN  /\ log' = Append(log, [attempt |-> attempt, exc |-> resp.exc,
                                    status |-> resp.status, body |-> resp.body,
                                    sleep |-> h.sleep])
             /\ slept' = slept + h.sleep
             /\ data' = h.value
             /\ attempt' = IF h.next = "continue" THEN attempt + 1 ELSE attempt
             /\ pc' = CASE h.next = "continue" -> "fetch"
                        [] h.next = "return"   -> ret
                        [] OTHER               -> "raised"
    /\ UNCHANGED <<ret, progVars, f_domain, f_retries, f_proxy, f_test>>
    /\ UNCHANGED libVars

\* The loop has run out of attempts: line 193.
FetchExhausted ==
    /\ pc = "fetch"
    /\ attempt > LastAttempt(f_retries)
    /\ data' = <<>>
    /\ pc' = ret
    /\ UNCHANGED <<ret, progVars, f_domain, f_retries, f_proxy, f_test, attempt, log, slept>>
    /\ UNCHANGED libVars

(***************************************************************************)
(* The fetcher called on its own                                           *)
(***************************************************************************)

FetchInit ==
    /\ NoLibCall
    /\ args = DefaultArgs
    /\ ProgInit
    /\ pc = "fetch"
    /\ ret = "returned"
    /\ f_domain = DomA
    /\ f_retries \in 0..MaxRetries
    /\ f_proxy \in {None, parse_proxy_list(ProxySpecs[1])[1]}
    /\ f_test \in BOOLEAN
    /\ attempt = 1
    /\ log = <<>>
    /\ slept = 0
    /\ data = <<>>

FetchNext == FetchAttempt \/ FetchExhausted

FetchSpec == FetchInit /\ [][FetchNext]_vars /\ WF_vars(FetchNext)

(***************************************************************************)
(* The command lines the model runs                                        *)
(***************************************************************************)

\* The retry counts given with --retries.
ArgRetries == {0, 1, 2}

\* The entries of --batch as the user writes them; the third one is no
\* well-formed domain, the fourth repeats the first.
BatchSpecs == <<DomA, <<" ">> \o DomB, DomNoDot, DomA, DomB>>

\* --batch with n entries; with none, a list of blanks.
BatchString(n) ==
    IF n = 0 THEN <<" ", ",">>
    ELSE Join(SubSeq(BatchSpecs, 1, n), <<",">>)

\* --proxy with n entries.
ProxyString(n) == Join(SubSeq(ProxySpecs, 1, n), <<",">>)

\* The proxy files: two endpoints, one without scheme, and a blank line.
ProxyFiles ==
    { [given |-> TRUE, readable |-> FALSE, lines |-> <<>>],
      [given |-> TRUE, readable |-> TRUE,
       lines |-> << <<"q", "1", "\n">>, <<"\n">>,
                    <<"h", "t", "t", "p", ":", "/", "/", "q", "2", "\n">> >>] }

\* --proxy and --proxy-file together.
ProxySources ==
    {[proxy |-> None, proxy_file |-> NoFile]}
    \cup {[proxy |-> ProxyString(n), proxy_file |-> NoFile] : n \in 1..MaxPool}
    \cup {[proxy |-> None, proxy_file |-> f] : f \in ProxyFiles}
    \cup {[proxy |-> ProxyString(1), proxy_file |-> f] : f \in ProxyFiles}

Formats == {<<"t", "x", "t">>, <<"j", "s", "o", "n">>, <<"c", "s", "v">>}

Limits == {<<>>} \cup {<<n>> : n \in 0..MaxLimit}

WithSource(a, src) == [a EXCEPT !.proxy = src.proxy, !.proxy_file = src.proxy_file]

\* -d: every option of a single scan of a well-formed domain, directly and
\* over the largest inline pool; every proxy source with and without
\* --rotate; and the malformed domains with and without a pool.
SingleArgs ==
    {[DefaultArgs EXCEPT !.domain = DomA, !.proxy = px, !.keyword = kw,
                         !.output = fmt, !.limit = lim, !.retries = r] :
        px \in {None, ProxyString(MaxPool)}, kw \in {None, <<"W">>},
        fmt \in {None} \cup Formats, lim \in Limits, r \in ArgRetries}
    \cup {WithSource([DefaultArgs EXCEPT !.domain = DomA, !.rotate = rot,
                                         !.retries = 1], src) :
            src \in ProxySources, rot \in BOOLEAN}
    \cup {WithSource([DefaultArgs EXCEPT !.domain = d, !.output = fmt], src) :
            d \in {DomNoDot, DomEmptyLabel, DomLongLabel},
            fmt \in {None, <<"t", "x", "t">>},
            src \in {[proxy |-> None, proxy_file |-> NoFile],
                     [proxy |-> ProxyString(1), proxy_file |-> NoFile]}}

\* -b: batches of 0..MaxBatch entries, over every proxy source with and
\* without a keyword, and without proxies with the options of scan_domain.
BatchArgs ==
    {WithSource([DefaultArgs EXCEPT !.batch = BatchString(n), !.keyword = kw], src) :
        n \in 0..MaxBatch, kw \in {None, <<"W">>}, src \in ProxySources}
    \cup {[DefaultArgs EXCEPT !.batch = BatchString(n), !.keyword = kw,
                              !.output = fmt, !.limit = lim, !.retries = 1] :
            n \in 1..MaxBatch, kw \in {None, <<"W">>},
            fmt \in {None, <<"c", "s", "v">>}, lim \in {<<>>, <<1>>}}

\* --test-proxies over every proxy source, and the command line with neither
\* -d nor -b.
OtherArgs ==
    {WithSource([DefaultArgs EXCEPT !.test_proxies = TRUE, !.domain = d], src) :
        d \in {None, DomA}, src \in ProxySources}
    \cup {WithSource(DefaultArgs, src) : src \in ProxySources}

ArgSpace == SingleArgs \cup BatchArgs \cup OtherArgs

(***************************************************************************)
(* main, scan_domain, batch_scan_with_proxies, test_proxies                *)
(***************************************************************************)

\* The retry count and the pacing of the batch scan and of the proxy test.
BatchRetries == 2
BatchPacing == 2
TestRetries == 1
TestPacing == 1

\* The reference domain of the proxy test.
DomGoogle == <<"g", "o", "o", "g", "l", "e", ".", "c", "o", "m">>

\* The run scans a single domain (-d), which takes precedence over -b.
SingleMode == Truthy(args.domain)

\* The arguments main passes to the current scan_domain call.
ScanTarget == IF SingleMode THEN args.domain ELSE domains[idx]
ScanPool == IF SingleMode THEN proxies ELSE <<>>
ScanRotate == IF SingleMode THEN args.rotate ELSE FALSE

\* sys.exit(code)
Exit(code) ==
    /\ pc' = "exit"
    /\ exit_code' = code

\* main, lines 513-569, up to its first call.
Main ==
    /\ pc = "main"
    /\ LET pool == IF Truthy(args.proxy) THEN parse_proxy_list(args.proxy)
                   ELSE IF args.proxy_file.given
                        THEN load_proxies_from_file(args.proxy_file)
                        ELSE <<>>
           parts == Split(args.batch, ",")
           doms  == IF Truthy(args.batch)
                    THEN DropEmpty([k \in 1..Len(parts) |-> Strip(parts[k])])
                    ELSE <<>>
       IN  /\ proxies' = pool
           /\ IF args.test_proxies
              THEN IF pool = <<>>
                   THEN Exit(1) /\ UNCHANGED <<idx, domains>>
                   ELSE pc' = "test_loop" /\ idx' = 1 /\ UNCHANGED <<exit_code, domains>>
              ELSE IF ~Truthy(args.domain) /\ ~Truthy(args.batch)
              THEN Exit(1) /\ UNCHANGED <<idx, domains>>
              ELSE IF Truthy(args.domain)
              THEN pc' = "scan_domain" /\ UNCHANGED <<exit_code, idx, domains>>
              ELSE /\ domains' = doms
                   /\ IF doms = <<>>
                      THEN Exit(1) /\ UNCHANGED idx
                      ELSE /\ idx' = 1
                           /\ pc' = IF pool # <<>> THEN "batch_loop" ELSE "scan_domain"
                           /\ UNCHANGED exit_code
    /\ UNCHANGED <<args, proxy, success, shown, files, results, summary, working,
                   failed, interrupted, paced, calls, ret, fetchVars>>
    /\ UNCHANGED libVars

\* main that exits with code 0 after a single scan whatever scan_domain
\* returned.
AfterScanExitZero(ok) ==
    IF SingleMode
    THEN Exit(0) /\ UNCHANGED idx
    ELSE IF idx < Len(domains)
    THEN pc' = "scan_domain" /\ idx' = idx + 1 /\ UNCHANGED exit_code
    ELSE Exit(0) /\ UNCHANGED idx

\* main after a scan_domain call returned ok: exit in a single scan
\* (line 551), the next domain or exit in a batch without proxies
\* (lines 566-569).
AfterScan(ok) ==
    IF SingleMode
    THEN Exit(IF ok THEN 0 ELSE 1) /\ UNCHANGED idx
    ELSE IF idx < Len(domains)
    THEN pc' = "scan_domain" /\ idx' = idx + 1 /\ UNCHANGED exit_code
    ELSE Exit(0) /\ UNCHANGED idx

\* Proxy selection of scan_domain, lines 335-347: the proxies it may pick.
SelectProxy(pool, rotate_proxy) ==
    IF pool = <<>> THEN {None}
    ELSE IF rotate_proxy THEN Range(pool)
    ELSE {pool[1]}

\* scan_domain up to its call of fetch_from_crtsh: lines 326-350.
ScanStart ==
    /\ pc = "scan_domain"
    /\ IF ~is_valid_domain(ScanTarget)
       THEN /\ success' = Append(success, FALSE)
            /\ AfterScan(FALSE)
            /\ UNCHANGED <<proxy, calls, ret, fetchVars>>
       ELSE /\ \E p \in SelectProxy(ScanPool, ScanRotate) :
                 /\ proxy' = p
                 /\ CallFetch(ScanTarget, args.retries, p, FALSE, "scan_after")
            /\ UNCHANGED <<success, idx, exit_code>>
    /\ UNCHANGED <<args, proxies, domains, shown, files, results, summary, working,
                   failed, interrupted, paced>>
    /\ UNCHANGED libVars

\* "if not data"
NoDataNever(d) == FALSE

NoData(d) == d = <<>>

\* lst[:n]
SliceTo(lst, n) ==
    IF n >= 0 THEN SubSeq(lst, 1, IF n < Len(lst) THEN n ELSE Len(lst))
    ELSE SubSeq(lst, 1, Len(lst) + n)

\* "if limit: subdomains_list = subdomains_list[:limit]"
ApplyLimit(lst, limit) ==
    IF limit # <<>> /\ limit[1] # 0 THEN SliceTo(lst, limit[1]) ELSE lst

\* The files save_results writes (time stamps left out): one for txt, with
\* the list as given, one for json or csv, with the list sorted, none for any
\* other format.
save_results(subdomains, domain, output_format) ==
    IF output_format = <<"t", "x", "t">>
    THEN << [format |-> output_format, domain |-> domain,
             subdomains |-> subdomains, count |-> Len(subdomains)] >>
    ELSE IF output_format \in {<<"j", "s", "o", "n">>, <<"c", "s", "v">>}
    THEN << [format |-> output_format, domain |-> domain,
             subdomains |-> SortedList(subdomains), count |-> Len(subdomains)] >>
    ELSE <<>>

\* scan_domain after fetch_from_crtsh returned: lines 352-381.
ScanFinish ==
    /\ pc = "scan_after"
    /\ IF NoData(data)
       THEN /\ success' = Append(success, FALSE)
            /\ AfterScan(FALSE)
            /\ UNCHANGED <<shown, files>>
       ELSE LET subdomains == extract_subdomains(data, ScanTarget)
                filtered   == IF Truthy(args.keyword)
                              THEN filter_subdomains(subdomains, args.keyword)
                              ELSE subdomains
                subdomains_list == ApplyLimit(Sorted(filtered), args.limit)
            IN  /\ shown' = Append(shown, [domain |-> ScanTarget,
                                           subdomains |-> subdomains_list,
                                           total |-> Len(subdomains_list),
                                           proxy |-> proxy])
                /\ IF Truthy(args.output)
                   THEN \E written \in BOOLEAN :
                          files' = IF written
                                   THEN files \o save_results(subdomains_list,
                                                       ScanTarget, args.output)
                                   ELSE files
                   ELSE files' = files
                /\ success' = Append(success, TRUE)
                /\ AfterScan(TRUE)
    /\ FrameGone
    /\ UNCHANGED <<args, proxies, domains, proxy, results, summary, working, failed,
                   interrupted, paced, calls, ret, data>>
    /\ UNCHANGED libVars

\* proxies[i % len(proxies)] with Python's 0-based indexing.
RoundRobinZeroBased(pool, i) == pool[((i - 1) % Len(pool)) + 1]

RoundRobin(pool, i) == pool[(i % Len(pool)) + 1]

\* results[key] = entry: a dict keeps one entry per key, in insertion order.
DictPut(dict, key, entry) ==
    IF \E k \in 1..Len(dict) : dict[k].key = key
    THEN [k \in 1..Len(dict) |-> IF dict[k].key = key THEN entry ELSE dict[k]]
    ELSE Append(dict, entry)

\* sum(r['count'] for r in results.values())
RECURSIVE SumCounts(_)
SumCounts(dict) ==
    IF dict = <<>> THEN 0 ELSE dict[1].count + SumCounts(Tail(dict))

\* A batch iteration that validates the entry as scan_domain does and skips
\* the fetch of an entry is_valid_domain rejects.
BatchFetchValidating ==
    /\ pc = "batch_loop"
    /\ idx <= Len(domains)
    /\ IF is_valid_domain(domains[idx])
       THEN LET p == IF proxies # <<>> THEN RoundRobin(proxies, idx) ELSE None
            IN  /\ proxy' = p
                /\ CallFetch(domains[idx], BatchRetries, p, FALSE, "batch_after")
                /\ UNCHANGED idx
       ELSE /\ idx' = idx + 1
            /\ UNCHANGED <<pc, ret, proxy, calls, fetchVars>>
    /\ UNCHANGED <<args, proxies, domains, success, shown, files, results,
                   summary, working, failed, exit_code, interrupted, paced>>
    /\ UNCHANGED libVars

\* batch_scan_with_proxies, one iteration up to the fetch: lines 391-400.
BatchFetch ==
    /\ pc = "batch_loop"
    /\ idx <= Len(domains)
    /\ LET p == IF proxies # <<>> THEN RoundRobin(proxies, idx) ELSE None
       IN  /\ proxy' = p
           /\ CallFetch(domains[idx], BatchRetries, p, FALSE, "batch_after")
    /\ UNCHANGED <<args, proxies, domains, idx, success, shown, files, results,
                   summary, working, failed, exit_code, interrupted, paced>>
    /\ UNCHANGED libVars

\* The proxy a batch entry names: "proxy if proxy else 'direct'", lines 410
\* and 418.
Direct == <<"d", "i", "r", "e", "c", "t">>
ProxyOrDirect(prx) == IF Truthy(prx) THEN prx ELSE Direct

\* batch_scan_with_proxies, the entry stored for one domain: lines 402-420.
BatchEntry(domain, d, keyword, prx) ==
    LET subdomains == extract_subdomains(d, domain)
        filtered == IF Truthy(keyword)
                    THEN filter_subdomains(subdomains, keyword)
                    ELSE subdomains
    IN  IF d # <<>>
        THEN [key |-> domain, count |-> Cardinality(filtered),
              proxy |-> ProxyOrDirect(prx), subdomains |-> Sorted(filtered)]
        ELSE [key |-> domain, count |-> 0, proxy |-> ProxyOrDirect(prx),
              subdomains |-> <<>>]

\* batch_scan_with_proxies, the rest of the iteration: lines 402-423.
BatchRecord ==
    /\ pc = "batch_after"
    /\ results' = DictPut(results, domains[idx],
                          BatchEntry(domains[idx], data, args.keyword, proxy))
    /\ paced' = Append(paced, BatchPacing)
    /\ idx' = idx + 1
    /\ pc' = "batch_loop"
    /\ FrameGone
    /\ UNCHANGED <<args, proxies, domains, proxy, success, shown, files, summary,
                   working, failed, exit_code, interrupted, calls, ret, data>>
    /\ UNCHANGED libVars

\* batch_scan_with_proxies after the loop, and main's exit: lines 425-440, 569.
BatchSummary ==
    /\ pc = "batch_loop"
    /\ idx > Len(domains)
    /\ summary' = <<[domains_scanned |-> Len(domains), proxies_used |-> Len(proxies),
                     total_subdomains |-> SumCounts(results)]>>
    /\ Exit(0)
    /\ UNCHANGED <<args, proxies, domains, idx, proxy, success, shown, files, results,
                   working, failed, interrupted, paced, calls, ret, fetchVars>>
    /\ UNCHANGED libVars

\* test_proxies, one iteration up to the fetch: lines 293-297.
TestFetch ==
    /\ pc = "test_loop"
    /\ idx <= Len(proxies)
    /\ CallFetch(DomGoogle, TestRetries, proxies[idx], TRUE, "test_after")
    /\ UNCHANGED <<args, proxies, domains, idx, proxy, success, shown, files, results,
                   summary, working, failed, exit_code, interrupted, paced>>
    /\ UNCHANGED libVars

\* test_proxies that marks a proxy working only when its fetch returned data.
MarkedWorkingIfData(d) == d # <<>>

\* test_proxies, the test of line 299: "if data or True".
MarkedWorking(d) == d # <<>> \/ TRUE

\* test_proxies, the rest of the iteration: lines 299-304.
TestRecord ==
    /\ pc = "test_after"
    /\ IF MarkedWorking(data)
       THEN working' = Append(working, proxies[idx]) /\ UNCHANGED failed
       ELSE failed' = Append(failed, proxies[idx]) /\ UNCHANGED working
    /\ paced' = Append(paced, TestPacing)
    /\ idx' = idx + 1
    /\ pc' = "test_loop"
    /\ FrameGone
    /\ UNCHANGED <<args, proxies, domains, proxy, success, shown, files, results,
                   summary, exit_code, interrupted, calls, ret, data>>
    /\ UNCHANGED libVars

\* test_proxies after the loop, and main's exit: lines 306-319, 531.
TestSummary ==
    /\ pc = "test_loop"
    /\ idx > Len(proxies)
    /\ Exit(0)
    /\ UNCHANGED <<args, proxies, domains, idx, proxy, success, shown, files, results,
                   summary, working, failed, interrupted, paced, calls, ret, fetchVars>>
    /\ UNCHANGED libVars

\* The user interrupts the run: KeyboardInterrupt unwinds the stack to the
\* handler of lines 574-576.
Interrupt ==
    /\ pc \notin {"exit", "returned", "raised"}
    /\ interrupted' = TRUE
    /\ Exit(0)
    /\ FrameGone
    /\ data' = <<>>
    /\ UNCHANGED <<args, proxies, domains, idx, proxy, success, shown, files, results,
                   summary, working, failed, paced, calls, ret>>
    /\ UNCHANGED libVars

Init ==
    /\ NoLibCall
    /\ args \in ArgSpace
    /\ ProgInit
    /\ pc = "main"
    /\ ret = "none"
    /\ f_domain = None
    /\ f_retries = 0
    /\ f_proxy = None
    /\ f_test = FALSE
    /\ attempt = 0
    /\ log = <<>>
    /\ slept = 0
    /\ data = <<>>

Next ==
    \/ Main
    \/ ScanStart
    \/ FetchAttempt
    \/ FetchExhausted
    \/ ScanFinish
    \/ BatchFetch
    \/ BatchRecord
    \/ BatchSummary
    \/ TestFetch
    \/ TestRecord
    \/ TestSummary
    \/ Interrupt

Spec == Init /\ [][Next]_vars /\ WF_vars(Next)

(***************************************************************************)
(* is_valid_domain and extract_subdomains called on their own              *)
(***************************************************************************)

MaxDomLen == 5
MaxRecords == 2

\* Every sequence over S of at most n elements.
SeqsUpTo(S, n) == UNION {[1..m -> S] : m \in 0..n}

\* Domains for is_valid_domain: every string of "a" and "." up to MaxDomLen
\* characters, and two labels whose lengths lie around the limit of line 64.
DomainInputs ==
    SeqsUpTo({"a", "."}, MaxDomLen)
    \cup {Rep("a", n) \o <<".">> \o Rep("a", m) :
            n, m \in {1, MaxLabelLen - 1, MaxLabelLen, MaxLabelLen + 1}}

\* name_value fields of certificate records.
NameValues ==
    { <<"w", ".", "a", ".", "i", "o">>,
      <<"*", ".", "B", ".", "a", ".", "i", "o", "\n", "w", ".", "a", ".", "i", "o">>,
      <<" ", "k", ".", "a", ".", "i", "o", " ", "\n", "\n", "x", ".", "b", ".", "i", "o">>,
      <<"a", ".", "i", "o", ".", "z">>,
      <<"*", ".", "*", ".", "a", ".", "i", "o">>,
      <<>>,
      Missing,
      BadValue }

\* "*.Api.Example.com\nwww.example.com" asked for example.com.
ExampleData ==
    << Cert(<<"*", ".", "A", "p", "i", ".", "E", "x", "a", "m", "p", "l", "e",
              ".", "c", "o", "m", "\n",
              "w", "w", "w", ".", "e", "x", "a", "m", "p", "l", "e", ".", "c", "o", "m">>) >>
ExampleDomain == <<"e", "x", "a", "m", "p", "l", "e", ".", "c", "o", "m">>

\* The calls made: is_valid_domain(domain), extract_subdomains(data, domain).
LibCalls ==
    {[fn |-> "is_valid_domain", domain |-> d] : d \in DomainInputs}
    \cup {[fn |-> "extract_subdomains", data |-> [k \in 1..Len(nv) |-> Cert(nv[k])],
           domain |-> d] :
            nv \in SeqsUpTo(NameValues, MaxRecords),
            d \in {DomA, <<"A", ".", "i", "o">>, DomB}}
    \cup {[fn |-> "extract_subdomains", data |-> ExampleData, domain |-> ExampleDomain]}

LibInit ==
    /\ call \in LibCalls
    /\ result = <<>>
    /\ pc = "call"
    /\ ret = "none"
    /\ args = DefaultArgs
    /\ ProgInit
    /\ f_domain = None
    /\ f_retries = 0
    /\ f_proxy = None
    /\ f_test = FALSE
    /\ attempt = 0
    /\ log = <<>>
    /\ slept = 0
    /\ data = <<>>

\* is_valid_domain(domain) runs and returns.
CallIsValidDomain ==
    /\ pc = "call"
    /\ call.fn = "is_valid_domain"
    /\ result' = <<is_valid_domain(call.domain)>>
    /\ pc' = "returned"
    /\ UNCHANGED <<call, ret, progVars, fetchVars>>

\* extract_subdomains(data, domain) runs and returns.
CallExtractSubdomains ==
    /\ pc = "call"
    /\ call.fn = "extract_subdomains"
    /\ result' = <<extract_subdomains(call.data, call.domain)>>
    /\ pc' = "returned"
    /\ UNCHANGED <<call, ret, progVars, fetchVars>>

LibNext == CallIsValidDomain \/ CallExtractSubdomains

LibSpec == LibInit /\ [][LibNext]_vars /\ WF_vars(LibNext)

(***************************************************************************)
(* Properties of the fetcher (checked under FetchSpec)                     *)
(***************************************************************************)

\* The last element of a non-empty list.
Last(q) == q[Len(q)]

\* The k-th request of the call was answered with HTTP status 429.
RateLimited(k) == log[k].exc = "HTTPError" /\ log[k].status = 429

\* The call runs in test mode: its successful result is discarded.
TestMode == f_test /\ Truthy(f_proxy)

\* C1: fetch never raises: whatever maxRetries >= 0 and whatever each attempt
\* comes to, it returns the body of a successful attempt or the empty list,
\* and a call that did not end on a successful attempt returns the empty list.
C1_FetchNeverRaises ==
    /\ pc # "raised"
    /\ pc = "returned" =>
         /\ \/ data = <<>>
            \/ log # <<>> /\ Last(log).exc = "none" /\ data = Last(log).body
         /\ (log = <<>> \/ Last(log).exc # "none") => data = <<>>

\* C1 witness: a call returned [] after three attempts that failed in three
\* different ways, the last one with an exception outside the requests library.
C1_Witness ==
    /\ pc = "returned"
    /\ Len(log) = 3
    /\ log[1].exc = "JSONDecodeError"
    /\ RateLimited(2)
    /\ log[3].exc = "TypeError"
    /\ data = <<>>

\* C2: an attempt that fails with a proxy-specific transport failure ends the
\* call at once: no backoff delay, no further attempt, the empty list returned.
C2_ProxyFailureReturnsAtOnce ==
    \A k \in 1..Len(log) :
        log[k].exc = "ProxyError" =>
            /\ log[k].sleep = 0
            /\ k = Len(log)
            /\ pc = "returned"
            /\ data = <<>>

\* The delay the retry policy gives each retried failure class.
PolicyDelay(exc) ==
    CASE exc = "Timeout" -> 5
      [] exc = "ConnectionError" -> 5
      [] exc = "JSONDecodeError" -> 2
      [] exc = "TypeError" -> 3

\* C3: a timeout, a connection error, a malformed body or an unexpected
\* failure on attempt k < maxRetries is followed by the fixed delay of its
\* class (5, 5, 2, 3 s) and then by attempt k + 1; on attempt k = maxRetries
\* the call returns [] with no delay and no further attempt. A call with
\* maxRetries = 3 that times out twice and then succeeds returns the body
\* after at least 10 s of backoff (test mode, which discards the body, aside).
C3_RetryBackoff ==
    /\ \A k \in 1..Len(log) :
         log[k].exc \in {"Timeout", "ConnectionError", "JSONDecodeError", "TypeError"} =>
            IF log[k].attempt < f_retries
            THEN /\ log[k].sleep = PolicyDelay(log[k].exc)
                 /\ IF k < Len(log)
                    THEN log[k + 1].attempt = log[k].attempt + 1
                    ELSE pc = "fetch" /\ attempt = log[k].attempt + 1
            ELSE /\ log[k].attempt = f_retries
                 /\ log[k].sleep = 0
                 /\ k = Len(log)
                 /\ pc = "returned"
                 /\ data = <<>>
    /\ ( /\ pc = "returned"
         /\ ~TestMode
         /\ f_retries = 3
         /\ Len(log) = 3
         /\ log[1].exc = "Timeout"
         /\ log[2].exc = "Timeout"
         /\ log[3].exc = "none" ) => data = log[3].body /\ slept >= 10

\* C3 witness: two timeouts, then a non-empty body, returned after 10 s.
C3_Witness ==
    /\ pc = "returned"
    /\ ~TestMode
    /\ f_retries = 3
    /\ Len(log) = 3
    /\ log[1].exc = "Timeout"
    /\ log[2].exc = "Timeout"
    /\ log[3].exc = "none"
    /\ data # <<>>
    /\ slept = 10

\* C4: an HTTP 429 on attempt k is followed by a 10 s wait and consumes one
\* attempt: the loop moves on to attempt k + 1, so a call that meets nothing
\* but 429 issues exactly maxRetries requests and returns [].
C4_RateLimitConsumesAttempt ==
    /\ \A k \in 1..Len(log) :
         RateLimited(k) =>
            /\ log[k].sleep = 10
            /\ IF k < Len(log)
               THEN log[k + 1].attempt = log[k].attempt + 1
               ELSE attempt = log[k].attempt + 1
    /\ (pc = "returned" /\ \A k \in 1..Len(log) : RateLimited(k)) =>
            Len(log) = f_retries /\ data = <<>>

\* C4 witness: three 429 answers out of three attempts, then [].
C4_Witness ==
    /\ pc = "returned"
    /\ f_retries = 3
    /\ Len(log) = 3
    /\ \A k \in 1..3 : RateLimited(k)
    /\ slept = 30
    /\ data = <<>>

\* C5: an HTTP error other than 429 ends the call at once: no delay, no
\* further attempt, the empty list returned, whatever the attempt number.
C5_HttpErrorReturnsAtOnce ==
    \A k \in 1..Len(log) :
        (log[k].exc = "HTTPError" /\ log[k].status # 429) =>
            /\ log[k].sleep = 0
            /\ k = Len(log)
            /\ pc = "returned"
            /\ data = <<>>

\* C5 witness: a 500 on the second of three permitted attempts.
C5_Witness ==
    /\ pc = "returned"
    /\ f_retries = 3
    /\ Len(log) = 2
    /\ log[2].exc = "HTTPError"
    /\ log[2].status = 500
    /\ data = <<>>

\* C6: the requests a call issues never exceed maxRetries (none when it is
\* 0), and every call returns in the end.
C6_BoundedRetries ==
    /\ [](Len(log) <= f_retries)
    /\ <>(pc = "returned")

\* C6 witness: a call that used up all its permitted attempts.
C6_Witness ==
    /\ pc = "returned"
    /\ f_retries >= 2
    /\ Len(log) = f_retries
    /\ \A k \in 1..Len(log) : log[k].exc # "none"

(***************************************************************************)
(* Properties of the scans (checked under Spec)                            *)
(***************************************************************************)

\* A domain that fails format validation as the specification words it: fewer
\* than two labels, an empty label, or a label of more than 63 characters.
Malformed(d) ==
    LET labels == Split(d, ".")
    IN  \/ Len(labels) < 2
        \/ \E k \in 1..Len(labels) : Len(labels[k]) = 0 \/ Len(labels[k]) > 63

\* The smaller of two numbers.
Min(a, b) == IF a < b THEN a ELSE b

\* C7: when the fetch of a scan_domain call returns zero records, the scan
\* ends there with a failure: nothing is displayed and no file is written,
\* whatever output format was requested.
C7_NoDataWritesNothing ==
    [][(pc = "scan_after" /\ data = <<>> /\ ~interrupted') =>
            /\ success' = Append(success, FALSE)
            /\ shown' = shown
            /\ files' = files]_vars

\* C7 witness: a single scan with an output format whose one fetch came back
\* empty has exited with nothing displayed and nothing written.
C7_Witness ==
    /\ SingleMode
    /\ pc = "exit"
    /\ ~interrupted
    /\ Truthy(args.output)
    /\ calls = 1
    /\ data = <<>>
    /\ success = <<FALSE>>
    /\ shown = <<>>
    /\ files = <<>>

\* C8: a scan_domain call on a malformed domain fails fast: it reports failure
\* without selecting a proxy and without calling the fetcher.
C8_InvalidDomainFailsFast ==
    [][(pc = "scan_domain" /\ Malformed(ScanTarget) /\ ~interrupted') =>
            /\ success' = Append(success, FALSE)
            /\ calls' = calls
            /\ proxy' = proxy
            /\ pc' # "fetch"
            /\ log' = log]_vars

\* C8 witness: a single scan of a malformed domain with a proxy pool at hand
\* has exited with code 1, no proxy selected and no fetch made.
C8_Witness ==
    /\ SingleMode
    /\ Malformed(args.domain)
    /\ proxies # <<>>
    /\ pc = "exit"
    /\ ~interrupted
    /\ success = <<FALSE>>
    /\ exit_code = 1
    /\ proxy = None
    /\ calls = 0

\* C9: whenever a limit L >= 0 is given, the list a single scan reports is the
\* first L entries of the sorted, filtered subdomain set: min(L, size) entries.
C9_LimitTruncates ==
    ( /\ SingleMode
      /\ pc = "exit"
      /\ ~interrupted
      /\ success = <<TRUE>>
      /\ args.limit # <<>>
      /\ args.limit[1] >= 0 ) =>
        LET all == Sorted(filter_subdomains(extract_subdomains(data, args.domain),
                                            args.keyword))
            n   == Min(args.limit[1], Len(all))
        IN  /\ Len(shown[1].subdomains) = n
            /\ shown[1].subdomains = SubSeq(all, 1, n)

\* The last position before i at which the batch list holds the domain d.
LastPosition(d, i) ==
    CHOOSE j \in 1..(i - 1) :
        /\ domains[j] = d
        /\ \A m \in 1..(i - 1) : domains[m] = d => m <= j

\* C10: in a batch scan over a pool of n >= 1 proxies the domain at 1-based
\* position i is fetched through pool[i mod n] (0-based), so the first domain
\* uses pool[1 mod n]; with two proxies the first domain uses pool[1] and the
\* second pool[0]. The proxy recorded for a domain is the one of its position.
C10_BatchRoundRobin ==
    /\ (pc = "fetch" /\ ret = "batch_after") =>
         LET n == Len(proxies)
         IN  /\ n >= 1
             /\ f_domain = domains[idx]
             /\ f_proxy = proxies[(idx % n) + 1]
             /\ (n = 2 /\ idx = 1) => f_proxy = proxies[2]
             /\ (n = 2 /\ idx = 2) => f_proxy = proxies[1]
    /\ \A k \in 1..Len(results) :
         LET i == LastPosition(results[k].key, idx)
         IN  results[k].proxy = proxies[(i % Len(proxies)) + 1]

\* C10 witness: the third domain of a batch over two proxies is being fetched
\* through pool[1], as the first one was, the second having used pool[0].
C10_Witness ==
    /\ pc = "fetch"
    /\ ret = "batch_after"
    /\ Len(proxies) = 2
    /\ idx = 3
    /\ f_proxy = proxies[2]
    /\ Len(results) = 2
    /\ results[1].proxy = proxies[2]
    /\ results[2].proxy = proxies[1]

\* The program is processing a batch (-b), through batch_scan_with_proxies or
\* through main's loop over scan_domain.
InBatchRun ==
    pc # "main" /\ ~args.test_proxies /\ ~SingleMode /\ domains # <<>>

\* The program is inside batch_scan_with_proxies, or has left it.
InBatchScan ==
    pc # "main" /\ ~args.test_proxies /\ ~SingleMode /\ proxies # <<>>

\* The summary holds an entry for domain d.
HasEntry(d) == \E e \in Range(results) : e.key = d

\* The sum of the counts of the first n entries of the summary.
RECURSIVE CountsUpTo(_)
CountsUpTo(n) == IF n = 0 THEN 0 ELSE results[n].count + CountsUpTo(n - 1)

\* C11: a batch scan keeps an entry for every domain it has processed, so the
\* finished summary has one for every domain of the list; in every entry the
\* count is the length of the sorted list, the printed total is the sum of the
\* counts, and a domain whose fetch returned no records is entered with count
\* 0 and an empty list.
C11_BatchSummaryComplete ==
    /\ [](InBatchRun =>
            /\ \A j \in 1..Len(domains) : j < idx => HasEntry(domains[j])
            /\ \A e \in Range(results) :
                 /\ e.count = Len(e.subdomains)
                 /\ \A j \in 1..(Len(e.subdomains) - 1) :
                      StrLess(e.subdomains[j], e.subdomains[j + 1])
            /\ (pc = "exit" /\ ~interrupted) =>
                 /\ summary # <<>>
                 /\ \A j \in 1..Len(domains) : HasEntry(domains[j])
                 /\ summary[1].total_subdomains = CountsUpTo(Len(results)))
    /\ [][(InBatchRun /\ pc \in {"batch_after", "scan_after"} /\ data = <<>>
              /\ ~interrupted') =>
            \E e \in Range(results') :
                e.key = domains[idx] /\ e.count = 0 /\ e.subdomains = <<>>]_vars

\* C12: in every batch scan a 2-second pacing delay follows each domain,
\* whatever its outcome: when the first request for the domain at position
\* idx is about to be issued, idx - 1 delays of 2 seconds have been taken.
C12_BatchPacing ==
    (InBatchRun /\ pc = "fetch") =>
        /\ Len(paced) = idx - 1
        /\ \A k \in 1..Len(paced) : paced[k] = 2

\* C13: in a batch scan every domain is fetched with a retry count of exactly
\* 2, whatever --retries says, so no domain of a batch receives more than 2
\* request attempts.
C13_BatchRetriesFixed ==
    (InBatchRun /\ pc = "fetch") =>
        /\ f_retries = 2
        /\ Len(log) <= 2

\* The program is inside test_proxies, or has left it.
InProxyTest == pc # "main" /\ args.test_proxies /\ proxies # <<>>

\* C16: the health check marks every proxy whose test fetch returned as
\* working, also when the call yielded no records because its attempt failed,
\* so the working list is always the prefix of the pool tested so far and the
\* failed list stays empty; each proxy is tested in pool order by one call in
\* test mode that makes exactly one attempt.
C16_EveryTestedProxyWorks ==
    /\ [](InProxyTest =>
            /\ working = SubSeq(proxies, 1, idx - 1)
            /\ failed = <<>>
            /\ pc = "fetch" =>
                 /\ f_retries = 1
                 /\ f_test
                 /\ f_proxy = proxies[idx]
                 /\ Len(log) <= 1
            /\ pc = "test_after" => Len(log) = 1 /\ calls = idx)
    /\ [][(pc = "test_after" /\ ~interrupted') =>
            working' = Append(working, proxies[idx])]_vars

\* The first proxy of the pool has been marked working and the single attempt
\* made through the second one has failed, its call returning no records.
C16_Witness ==
    /\ InProxyTest
    /\ pc = "test_after"
    /\ idx = 2
    /\ working = <<proxies[1]>>
    /\ Last(log).exc = "ConnectionError"
    /\ data = <<>>

\* The --batch string has no non-empty entry.
NoBatchEntries ==
    \A k \in 1..Len(Split(args.batch, ",")) :
        Strip(Split(args.batch, ",")[k]) = <<>>

\* C17: the process exits with 0 or 1 and nothing else: 0 on a user
\* interrupt, after a proxy test over a non-empty pool, after a single scan
\* that succeeded and after a batch that ran, even when every domain came back
\* empty; 1 when proxy testing was requested with an empty pool, when neither
\* a domain nor a batch list was given, when the batch list has no non-empty
\* entry and when the single scan failed.
C17_ExitCodes ==
    /\ pc # "exit" => exit_code = -1
    /\ pc = "exit" =>
         /\ exit_code \in {0, 1}
         /\ exit_code =
              IF interrupted THEN 0
              ELSE IF args.test_proxies
              THEN (IF proxies = <<>> THEN 1 ELSE 0)
              ELSE IF ~Truthy(args.domain) /\ ~Truthy(args.batch) THEN 1
              ELSE IF Truthy(args.domain)
              THEN (IF success = <<TRUE>> THEN 0 ELSE 1)
              ELSE IF NoBatchEntries THEN 1
              ELSE 0

\* A batch of two domains ran to its end with no name found for either and
\* the process exited with 0.
C17_Witness ==
    /\ pc = "exit"
    /\ ~interrupted
    /\ exit_code = 0
    /\ Len(domains) = 2
    /\ summary # <<>>
    /\ Len(results) = 2
    /\ summary[1].total_subdomains = 0

\* The endpoint names one of the three proxy schemes.
CarriesScheme(p) ==
    \E s \in {<<"h", "t", "t", "p", ":", "/", "/">>,
              <<"h", "t", "t", "p", "s", ":", "/", "/">>,
              <<"s", "o", "c", "k", "s", "5", ":", "/", "/">>} :
        Len(p) >= Len(s) /\ SubSeq(p, 1, Len(s)) = s

\* C19: every endpoint of the pool built at startup, from --proxy or from
\* --proxy-file, carries a scheme and is not empty.
C19_PoolEndpointsHaveScheme ==
    pc # "main" =>
        \A k \in 1..Len(proxies) : proxies[k] # <<>> /\ CarriesScheme(proxies[k])

\* C20: on the final attempt (attempt = maxRetries) an HTTP 429 still takes
\* the full 10 s wait, after which the call returns [] with no further
\* request; a timeout, a connection error, a malformed body or an unexpected
\* failure on the final attempt returns [] at once, with no wait.
C20_FinalAttemptWait ==
    \A k \in 1..Len(log) :
        log[k].attempt = f_retries =>
            /\ k = Len(log)
            /\ RateLimited(k) =>
                 /\ log[k].sleep = 10
                 /\ slept >= 10
                 /\ attempt = f_retries + 1
                 /\ pc = "returned" => data = <<>>
            /\ log[k].exc \in {"Timeout", "ConnectionError", "JSONDecodeError",
                               "TypeError"} =>
                 /\ log[k].sleep = 0
                 /\ pc = "returned"
                 /\ data = <<>>

\* A call with maxRetries = 2 timed out, was answered 429 on its final
\* attempt, waited 5 + 10 seconds and returned [].
C20_Witness ==
    /\ pc = "returned"
    /\ f_retries = 2
    /\ Len(log) = 2
    /\ log[1].exc = "Timeout"
    /\ RateLimited(2)
    /\ log[2].sleep = 10
    /\ slept = 15
    /\ data = <<>>

(***************************************************************************)
(* Properties of extract_subdomains and is_valid_domain (under LibSpec)    *)
(***************************************************************************)

\* extract_subdomains(data, domain) has returned.
Extracted == pc = "returned" /\ call.fn = "extract_subdomains"

\* The records of data whose name field is a string, or is absent.
WellFormed(recs) == SelectSeq(recs, LAMBDA r : r.name_value # BadValue)

\* The candidates of a list of records: every line of every name field,
\* trimmed and lowercased.
Candidates(recs) ==
    UNION {{Lower(Strip(n)) :
               n \in Range(Split(IF r.name_value = Missing THEN <<>>
                                 ELSE r.name_value, "\n"))} :
           r \in Range(recs)}

\* A hostname without its leading "*.", if it has one.
Unwild(c) ==
    IF Len(c) >= 2 /\ c[1] = "*" /\ c[2] = "." THEN SubSeq(c, 3, Len(c)) ELSE c

\* The set the specification gives for a list of records and a domain.
ExpectedNames(recs, domain) ==
    {Unwild(c) : c \in {x \in Candidates(recs) :
                           x # <<>> /\ Contains(x, Lower(domain))}}

\* C14: for every list of records with string name fields and every domain,
\* extract_subdomains returns exactly the set got by splitting each name field
\* on newlines, trimming and lowercasing each candidate, keeping the non-empty
\* ones that contain the lowercased domain and removing one leading "*.";
\* "*.Api.Example.com\nwww.example.com" gives {api.example.com,
\* www.example.com} for example.com.
C14_ExtractExact ==
    Extracted =>
        /\ WellFormed(call.data) = call.data =>
             result[1] = ExpectedNames(call.data, call.domain)
        /\ (call.data = ExampleData /\ call.domain = ExampleDomain) =>
             result[1] = { <<"a", "p", "i", ".", "e", "x", "a", "m", "p", "l", "e",
                             ".", "c", "o", "m">>,
                           <<"w", "w", "w", ".", "e", "x", "a", "m", "p", "l", "e",
                             ".", "c", "o", "m">> }

\* Two records that share a name, one with a wildcard and upper case, asked
\* for an upper-case domain: the two distinct names come back.
C14_Witness ==
    /\ Extracted
    /\ Len(call.data) = 2
    /\ call.data[1].name_value = <<"w", ".", "a", ".", "i", "o">>
    /\ call.data[2].name_value =
         <<"*", ".", "B", ".", "a", ".", "i", "o", "\n", "w", ".", "a", ".", "i", "o">>
    /\ call.domain = <<"A", ".", "i", "o">>
    /\ result[1] = {<<"w", ".", "a", ".", "i", "o">>, <<"b", ".", "a", ".", "i", "o">>}

\* C15: extract_subdomains is fail-soft: a record that cannot be parsed does
\* not end the extraction; the names accumulated before it are kept and the
\* remaining records are still processed, so the names of every well-formed
\* record, before or after the faulty one, are in the returned set.
C15_ExtractFailSoft ==
    Extracted =>
        ExpectedNames(WellFormed(call.data), call.domain) \subseteq result[1]

\* is_valid_domain(domain) has returned.
Validated == pc = "returned" /\ call.fn = "is_valid_domain"

\* The number of non-empty labels among the first n labels of d.
RECURSIVE NonEmptyLabels(_, _)
NonEmptyLabels(d, n) ==
    IF n = 0 THEN 0
    ELSE NonEmptyLabels(d, n - 1) + (IF Split(d, ".")[n] # <<>> THEN 1 ELSE 0)

\* C18 as stated: is_valid_domain(d) is false for every d that has fewer than
\* two "."-separated non-empty labels or a label longer than 63 characters,
\* and true for every other d.
C18_ValidDomainAsStated ==
    Validated =>
        (result[1] <=>
            ~(\/ NonEmptyLabels(call.domain, Len(Split(call.domain, "."))) < 2
              \/ \E k \in 1..Len(Split(call.domain, ".")) :
                    Len(Split(call.domain, ".")[k]) > 63))

\* C18: is_valid_domain(d) is false for every d that has fewer than two
\* "."-separated labels, an empty label, or a label longer than 63
\* characters, and true for every other d.
C18_ValidDomain ==
    Validated => (result[1] <=> ~Malformed(call.domain))

\* A domain with two non-empty labels and an empty one between them was
\* rejected.
C18_Witness ==
    /\ Validated
    /\ call.domain = <<"a", ".", ".", "a">>
    /\ result = <<FALSE>>

(***************************************************************************)
(* Validation on the batch paths (checked under Spec)                      *)
(***************************************************************************)

\* C21: a batch scan over a non-empty pool validates nothing: it calls the
\* fetcher once for every entry of the batch list, in order, also for an
\* entry that is no well-formed domain; a single scan and a batch without
\* proxies go through scan_domain and never call the fetcher for such an
\* entry.
C21_ProxiedBatchSkipsValidation ==
    /\ [](/\ (InBatchScan /\ pc \in {"fetch", "batch_after"}) =>
                calls = idx /\ (pc = "fetch" => f_domain = domains[idx])
          /\ (InBatchScan /\ summary # <<>>) => calls = Len(domains)
          /\ (pc = "fetch" /\ ~args.test_proxies
                 /\ (SingleMode \/ proxies = <<>>)) => ~Malformed(f_domain))
    /\ [][(InBatchScan /\ pc = "batch_loop" /\ idx <= Len(domains)
              /\ ~interrupted') =>
            /\ pc' = "fetch"
            /\ f_domain' = domains[idx]
            /\ calls' = calls + 1]_vars

\* The third entry of a batch run through proxies is no well-formed domain,
\* and a request for it has been issued and answered.
C21_Witness ==
    /\ InBatchScan
    /\ pc = "batch_after"
    /\ idx = 3
    /\ Malformed(domains[3])
    /\ calls = 3
    /\ Len(log) >= 1

====
